---------------------------- MODULE Spec2Model ----------------------------
(***************************************************************************)
(* A model of the video creator statistics pipeline:                       *)
(*   - IngestionFile (utils.py): load a table and run a QA pipeline, an    *)
(*     ordered list of per-column rules (config.py), over it;              *)
(*   - VideoCreatorStats (process.py): clean the creators and the videos   *)
(*     table, join them, aggregate, and save the tables as files;          *)
(*   - TextStatistics (DataAnalytics/TextStatistics.py) and the keyword    *)
(*     helpers of process.py: TF-IDF keywords of captions.                 *)
(* A table (pandas DataFrame) is a sequence of rows, a row a function      *)
(* from column names to cells, a cell a tagged value.                      *)
(***************************************************************************)
EXTENDS Integers, Sequences, FiniteSets, TLC

VARIABLES
    disk,         \* the CSV files: file name -> the table pd.read_csv yields
    ifile,        \* a stand-alone IngestionFile object
    given,        \* the table clean_data started from in the latest call
    creators,     \* VideoCreatorStats.creators
    videos,       \* VideoCreatorStats.videos
    merged,       \* VideoCreatorStats.merged
    stats_table,  \* VideoCreatorStats.stats_table
    ret,          \* outcome of the latest call: its name, status, value
    log,          \* the logging entries the latest call emitted, in order
    trace,        \* the steps the latest clean_data took, in order
    captions,     \* the texts handed to a keyword operation
    top_n,        \* the top_n of the latest keyword operation
    clock,        \* the day datetime.now() is in
    lastday,      \* the last day of the period the calls are made in
    out,          \* the files under output_dir: path -> the table written
    work          \* how often the latest call loaded, joined, built the stats

\* the variables of the run environment
runVars == <<clock, lastday, out, work>>

vars == <<disk, ifile, given, creators, videos, merged, stats_table, ret, log, trace,
          captions, top_n, clock, lastday, out, work>>

---------------------------------------------------------------------------
(* Bounds of the model.                                                    *)

\* rows of a table handed to a stand-alone IngestionFile
MaxRows == 2
\* rows of creators.csv
MaxCreators == 3
\* rows of videos.csv
MaxVideos == 2
\* texts handed to a keyword operation
MaxDocs == 3
\* the largest top_n a keyword operation is called with
MaxTopN == 3

---------------------------------------------------------------------------
(* Cells.  pandas' missing value, a Python int, a Python float (the float  *)
(* F(n) stands for n + 0.5) and a Python str.                              *)

NA == [t |-> "na", i |-> 0, s |-> ""]
I(n) == [t |-> "int", i |-> n, s |-> ""]
F(n) == [t |-> "float", i |-> n, s |-> ""]
S(x) == [t |-> "str", i |-> 0, s |-> x]

\* Series.isnull, cell-wise
isnull(c) == c.t = "na"

\* isinstance(x, int) / isinstance(x, str)
IsInt(c) == c.t = "int"
IsStr(c) == c.t = "str"

\* x < 0 for a number: n < 0, and n + 0.5 < 0 iff n < 0; NaN < 0 is False
LtZero(c) == c.t \in {"int", "float"} /\ c.i < 0

\* x == "" (an int or a missing value never equals a str)
IsEmptyStr(c) == c.t = "str" /\ c.s = ""

\* Fn(x), with x evaluated once before Fn is applied to its value
Then(x, Fn(_)) == CHOOSE y \in {Fn(v) : v \in {x}} : TRUE

\* Python's None, and a DataFrame holding the given rows
None == [kind |-> "None", rows |-> <<>>]
DataFrame(rows) == [kind |-> "DataFrame", rows |-> rows]

---------------------------------------------------------------------------
(* config.py: the QA pipelines.  A rule is a dict; an optional key is a    *)
(* sequence of length 0 (key absent) or 1.  A condition lambda is the      *)
(* predicate it computes over the named column of the table.               *)

NoKey == <<>>
Key(v) == <<v>>

\* lambda df: df[col].apply(lambda x: not isinstance(x, int)).any()
NotInt(col) == [pred |-> "not_int", col |-> col]
\* lambda df: df[col].apply(lambda x: x < 0).any()
Negative(col) == [pred |-> "negative", col |-> col]
\* lambda df: df[col].apply(lambda x: not isinstance(x, str)).any()
NotStr(col) == [pred |-> "not_str", col |-> col]
\* lambda df: df[col].apply(lambda x: x == "").any()
Empty(col) == [pred |-> "empty", col |-> col]

\* condition(df): the lambda applied to a table (a sequence of rows)
Holds(cond, rows) ==
    \E r \in DOMAIN rows :
        LET x == rows[r][cond.col] IN
        CASE cond.pred = "not_int" -> ~IsInt(x)
          [] cond.pred = "negative" -> LtZero(x)
          [] cond.pred = "not_str" -> ~IsStr(x)
          [] cond.pred = "empty" -> IsEmptyStr(x)

IntRule(col, fill, warn, msg) ==
    [col |-> col, type |-> "Int64", fill_na |-> fill,
     warnings |-> <<[message |-> warn, condition |-> NotInt(col)]>>,
     assertions |-> <<[condition |-> Negative(col), message |-> msg,
                       should_fail |-> Key(TRUE)]>>]

creator_qa_pipeline ==
    << IntRule("creator_id", NoKey, "Creator ID is not an integer.",
               "Creator ID cannot be negative"),
       [col |-> "username", type |-> "str", fill_na |-> NoKey,
        warnings |-> <<>>,
        assertions |-> <<[condition |-> NotStr("username"),
                          message |-> "Username is not a string.",
                          should_fail |-> NoKey],
                         [condition |-> Empty("username"),
                          message |-> "Username cannot be empty",
                          should_fail |-> Key(TRUE)]>>],
       IntRule("follower_count", Key(I(0)), "Follower count is not an integer.",
               "Follower count cannot be negative"),
       IntRule("avg_views", Key(I(0)), "Average views is not an integer.",
               "Average views cannot be negative"),
       [col |-> "category", type |-> "str", fill_na |-> Key(S("")),
        warnings |-> <<>>,
        assertions |-> <<[condition |-> NotStr("category"),
                          message |-> "Category is not a string.",
                          should_fail |-> NoKey]>>],
       [col |-> "bio", type |-> "str", fill_na |-> Key(S("")),
        warnings |-> <<>>,
        assertions |-> <<[condition |-> NotStr("bio"),
                          message |-> "Bio is not a string.",
                          should_fail |-> NoKey]>>] >>

videos_qa_pipeline ==
    << [col |-> "video_id", type |-> "str", fill_na |-> NoKey,
        warnings |-> <<>>,
        assertions |-> <<[condition |-> NotStr("video_id"),
                          message |-> "Video ID is not a string.",
                          should_fail |-> Key(TRUE)]>>],
       IntRule("creator_id", NoKey, "Creator ID is not an integer.",
               "Creator ID cannot be negative"),
       IntRule("views", Key(I(0)), "Views is not an integer.",
               "Views cannot be negative"),
       IntRule("likes", Key(I(0)), "Likes is not an integer.",
               "Likes cannot be negative"),
       IntRule("comments", Key(I(0)), "Comments is not an integer.",
               "Comments cannot be negative"),
       IntRule("shares", Key(I(0)), "Shares is not an integer.",
               "Shares cannot be negative"),
       [col |-> "caption", type |-> "str", fill_na |-> Key(S("")),
        warnings |-> <<>>,
        assertions |-> <<[condition |-> NotStr("caption"),
                          message |-> "Caption is not a string.",
                          should_fail |-> NoKey]>>] >>


---------------------------------------------------------------------------
(* utils.py: IngestionFile.                                                *)

\* self.header_types: the columns the rules name, and their types
Columns(p) == {p[k].col : k \in DOMAIN p}
ColType(p, c) == p[CHOOSE k \in DOMAIN p : p[k].col = c].type

\* no exception pending
NoExc == [type |-> "", file |-> "", text |-> ""]
Exc(type, file, text) == [type |-> type, file |-> file, text |-> text]

\* one logging call: logging.warning / logging.error with its f-string
LogEntry(level, file, text, col) ==
    [level |-> level, file |-> file, text |-> text, col |-> col, count |-> 0]

\* one executed step of clean_data, with the table as the step saw or left it
Step(k, step, item, held, rows) ==
    [rule |-> k, step |-> step, item |-> item, held |-> held, df |-> rows]

\* "key" in dict
Has(opt) == opt # NoKey

\* pd.read_csv(self.filename, header=..., dtype=self.header_types)
read_csv(filename, dsk) == DataFrame(dsk[filename])

\* IngestionFile(qa_pipeline, filename, header_rows): self.data = None
IngestionFile(qa_pipeline, filename) ==
    [kind |-> "IngestionFile", qa_pipeline |-> qa_pipeline,
     filename |-> filename, data |-> None]

\* IngestionFile.load_data
IngestionFile_load_data(file, dsk) ==
    [file EXCEPT !.data = read_csv(file.filename, dsk)]

\* a fillna whose result is not assigned back to df[col]
fillna_unassigned(rows, col, value) == rows

\* df[col] = df[col].fillna(value)
fillna(rows, col, value) ==
    [r \in DOMAIN rows |->
        [rows[r] EXCEPT ![col] = IF isnull(@) THEN value ELSE @]]

\* df[col].isnull().any()
AnyNull(rows, col) == \E r \in DOMAIN rows : isnull(rows[r][col])

\* raise logging.error(...): logging.error returns None, and raising None
\* is a TypeError
RaiseNone == Exc("TypeError", "", "exceptions must derive from BaseException")

\* "NA Handling" of one rule
NaHandling(st, k, qa, filename) ==
    IF Has(qa.fill_na)
    THEN LET df1 == fillna(st.df, qa.col, qa.fill_na[1]) IN
         [st EXCEPT !.df = df1,
                    !.trace = Append(@, Step(k, "fill_na", 0, TRUE, df1))]
    ELSE IF AnyNull(st.df, qa.col)
         THEN [st EXCEPT
                 !.trace = Append(@, Step(k, "isnull", 0, TRUE, st.df)),
                 !.log = Append(@, LogEntry("ERROR", filename,
                                            "contains null values.", qa.col)),
                 !.exc = RaiseNone]
         ELSE [st EXCEPT
                 !.trace = Append(@, Step(k, "isnull", 0, FALSE, st.df))]

\* "Warnings" of one rule, from the j-th on (a rule without the key has none)
RECURSIVE RunWarnings(_, _, _, _, _)
RunWarnings(st, k, qa, filename, j) ==
    IF j > Len(qa.warnings) THEN st
    ELSE LET w == qa.warnings[j]
             h == Holds(w.condition, st.df)
             st1 == [st EXCEPT
                       !.trace = Append(@, Step(k, "warning", j, h, st.df)),
                       !.log = IF h
                               THEN Append(@, LogEntry("WARNING", filename,
                                                       w.message, ""))
                               ELSE @]
         IN Then(st1, LAMBDA s1 : RunWarnings(s1, k, qa, filename, j + 1))

\* assertion["should_fail"]: a dict without the key raises KeyError
ShouldFail(assertion) ==
    IF ~Has(assertion.should_fail) THEN "KeyError"
    ELSE IF assertion.should_fail[1] THEN "True" ELSE "False"

\* "Assertions" of one rule, from the j-th on
RECURSIVE RunAssertions(_, _, _, _, _)
RunAssertions(st, k, qa, filename, j) ==
    IF j > Len(qa.assertions) THEN st
    ELSE LET a == qa.assertions[j]
             h == Holds(a.condition, st.df)
             st1 == [st EXCEPT
                       !.trace = Append(@, Step(k, "assertion", j, h, st.df))]
             st2 == [st1 EXCEPT
                       !.log = Append(@, LogEntry("ERROR", filename,
                                                  a.message, ""))]
         IN IF ~h
            THEN Then(st1, LAMBDA s1 : RunAssertions(s1, k, qa, filename, j + 1))
            ELSE CASE ShouldFail(a) = "KeyError" ->
                        [st2 EXCEPT !.exc = Exc("KeyError", "", "should_fail")]
                   [] ShouldFail(a) = "True" ->
                        [st2 EXCEPT !.exc = Exc("ValueError", filename, a.message)]
                   [] OTHER ->
                        Then(st2, LAMBDA s2 : RunAssertions(s2, k, qa, filename, j + 1))

\* a loop body that checks a rule's warnings and assertions before it
\* handles the column's missing values
RunRule_checks_first(st, k, qa, filename) ==
    Then(RunWarnings(st, k, qa, filename, 1), LAMBDA s1 :
    Then(RunAssertions(s1, k, qa, filename, 1), LAMBDA s2 :
    IF s2.exc # NoExc THEN s2 ELSE NaHandling(s2, k, qa, filename)))

\* the body of the loop over self.qa_pipeline for the k-th rule (no rule of
\* config.py has a "post_processing" key)
RunRule(st, k, qa, filename) ==
    Then(NaHandling(st, k, qa, filename), LAMBDA s1 :
    IF s1.exc # NoExc THEN s1
    ELSE Then(RunWarnings(s1, k, qa, filename, 1), LAMBDA s2 :
         RunAssertions(s2, k, qa, filename, 1)))

\* for qa in self.qa_pipeline, from the k-th rule on; an exception ends it
RECURSIVE RunPipeline(_, _, _, _)
RunPipeline(st, pipeline, filename, k) ==
    IF k > Len(pipeline) \/ st.exc # NoExc THEN st
    ELSE Then(RunRule(st, k, pipeline[k], filename), LAMBDA s1 :
         RunPipeline(s1, pipeline, filename, k + 1))

\* a loop that works on a copy of self.data
Detached(data, df) == data

\* df = self.data binds a second name to the one DataFrame: what the loop
\* assigns to df[col] is assigned to self.data
Aliased(data, df) == df

\* IngestionFile.clean_data: the object after the call and the outcome
clean_data(file, dsk) ==
    Then(IF file.data = None THEN IngestionFile_load_data(file, dsk) ELSE file,
         LAMBDA loaded :
    Then(RunPipeline([df |-> loaded.data.rows, log |-> <<>>,
                      trace |-> <<>>, exc |-> NoExc],
                     file.qa_pipeline, file.filename, 1),
         LAMBDA st :
    LET ok == st.exc = NoExc
    IN [self |-> [loaded EXCEPT
                    !.data = DataFrame(Aliased(loaded.data.rows, st.df))],
        status |-> IF ok THEN "ok" ELSE "raise",
        exc |-> st.exc,
        value |-> IF ok THEN DataFrame(st.df) ELSE None,
        log |-> st.log,
        trace |-> st.trace,
        given |-> loaded.data.rows]))

---------------------------------------------------------------------------
(* process.py: VideoCreatorStats.  A method is an operator from the        *)
(* object's fields (self) and the files to the fields after the call and   *)
(* the call's outcome.                                                     *)

creators_path == "creators.csv"
videos_path == "videos.csv"

\* the columns of the two tables, as the files' headers give them
CreatorColumns == Columns(creator_qa_pipeline)
VideoColumns == Columns(videos_qa_pipeline)

\* no file under output_dir, and a call that loaded, joined and built nothing
NoFiles == <<>>
NoWork == [loads |-> 0, merges |-> 0, builds |-> 0]

\* datetime.now(): the day of the next clock read of the call, and the
\* object with that read taken
Today(self) == self.now[self.reads + 1]
AfterRead(self) == [self EXCEPT !.reads = @ + 1]

\* a method's normal return and its raise
Return(self, value, lg) ==
    [self |-> self, status |-> "ok", exc |-> NoExc, value |-> value, log |-> lg]
Raise(self, exc, lg) ==
    [self |-> self, status |-> "raise", exc |-> exc, value |-> None, log |-> lg]

\* numbers the aggregations yield: an int, the float num / den, the natural
\* logarithm of num / den, NaN, and the outcome of a division by zero
IntNum(n) == [kind |-> "int", num |-> n, den |-> 1]
NaN == [kind |-> "nan", num |-> 0, den |-> 0]
TrueDiv(a, b) ==
    IF b = 0 THEN [kind |-> "division by zero", num |-> a, den |-> 0]
    ELSE [kind |-> "float", num |-> a, den |-> b]
np_log(x) == IF x.kind = "float" THEN [x EXCEPT !.kind = "log"] ELSE x

RECURSIVE SeqSum(_)
SeqSum(q) == IF q = <<>> THEN 0 ELSE Head(q) + SeqSum(Tail(q))

\* df[col] as the sequence of its ints
IntColumn(rows, col) == [r \in DOMAIN rows |-> rows[r][col].i]

\* Series.sum and Series.mean (NaN over no rows)
sum(rows, col) == SeqSum(IntColumn(rows, col))
mean(rows, col) ==
    IF rows = <<>> THEN NaN ELSE TrueDiv(sum(rows, col), Len(rows))

\* load_data that goes on after a failed cleaning, with each table as its
\* cleaning left it
load_data_lenient(self, dsk) ==
    Then(clean_data(IngestionFile(creator_qa_pipeline, creators_path), dsk),
         LAMBDA rc :
    Then(clean_data(IngestionFile(videos_qa_pipeline, videos_path), dsk),
         LAMBDA rv :
    Return([self EXCEPT !.creators = rc.self.data, !.videos = rv.self.data,
                        !.work.loads = @ + 1],
           None, rc.log \o rv.log)))

\* VideoCreatorStats.load_data
load_data(self, dsk) ==
    LET c0 == IngestionFile(creator_qa_pipeline, creators_path)
        v0 == IngestionFile(videos_qa_pipeline, videos_path)
    IN Then(clean_data(c0, dsk), LAMBDA rc :
       IF rc.status = "raise"
       THEN Raise([self EXCEPT !.creators = rc.self, !.videos = v0,
                               !.work.loads = @ + 1], rc.exc, rc.log)
       ELSE Then(clean_data(v0, dsk), LAMBDA rv :
            IF rv.status = "raise"
            THEN Raise([self EXCEPT !.creators = rc.value, !.videos = rv.self,
                                    !.work.loads = @ + 1],
                       rv.exc, rc.log \o rv.log)
            ELSE Return([self EXCEPT !.creators = rc.value, !.videos = rv.value,
                                     !.work.loads = @ + 1],
                        None, rc.log \o rv.log)))

\* the rows of the right table with the key of a left row, in their order
Matches(left_row, right, on) ==
    SelectSeq(right, LAMBDA c : c[on] = left_row[on])

\* a row of the left join: the left row's columns, the right row's other
\* columns (missing when there is no right row) and the indicator column
JoinedRow(left_row, right_cells, indicator) ==
    [c \in DOMAIN left_row \cup DOMAIN right_cells \cup {"_merge"} |->
        IF c = "_merge" THEN S(indicator)
        ELSE IF c \in DOMAIN left_row THEN left_row[c]
        ELSE right_cells[c]]

\* the left join from the k-th left row on: left order kept, one row per
\* matching right row, one "left_only" row for a left row without a match
RECURSIVE LeftJoin(_, _, _, _, _)
LeftJoin(left, right, on, right_columns, k) ==
    IF k > Len(left) THEN <<>>
    ELSE LET m == Matches(left[k], right, on)
             rows == IF m = <<>>
                     THEN <<JoinedRow(left[k], [c \in right_columns |-> NA], "left_only")>>
                     ELSE [j \in DOMAIN m |-> JoinedRow(left[k], m[j], "both")]
         IN rows \o LeftJoin(left, right, on, right_columns, k + 1)

\* pd.merge(left, right, on=..., how='left', indicator=True): it accepts
\* DataFrames only
pd_merge(left, right, on, right_columns) ==
    IF left.kind # "DataFrame" \/ right.kind # "DataFrame"
    THEN [status |-> "raise",
          exc |-> Exc("TypeError", "", "Can only merge Series or DataFrame objects"),
          rows |-> <<>>]
    ELSE [status |-> "ok", exc |-> NoExc,
          rows |-> LeftJoin(left.rows, right.rows, on, right_columns, 1)]

\* merged_all[merged_all['_merge'] == which]
WithIndicator(rows, which) == SelectSeq(rows, LAMBDA r : r["_merge"] = S(which))

\* .drop(columns=['_merge'])
DropIndicator(rows) ==
    [r \in DOMAIN rows |-> [c \in DOMAIN rows[r] \ {"_merge"} |-> rows[r][c]]]

\* logging.warning(f"Found {unmatched_count} videos with unmatched creator_id")
UnmatchedWarning(n) ==
    [level |-> "WARNING", file |-> "", text |-> "videos with unmatched creator_id",
     col |-> "", count |-> n]

\* VideoCreatorStats.process_data
process_data(self, dsk) ==
    Then(IF self.creators.kind = "None" \/ self.videos.kind = "None"
         THEN load_data(self, dsk)
         ELSE Return(self, None, <<>>),
         LAMBDA l :
    IF l.status = "raise" THEN l
    ELSE Then(pd_merge(l.self.videos, l.self.creators, "creator_id",
                       CreatorColumns \ {"creator_id"}),
              LAMBDA merged_all :
         LET unmatched_count == Len(WithIndicator(merged_all.rows, "left_only"))
             lg == IF unmatched_count > 0
                   THEN Append(l.log, UnmatchedWarning(unmatched_count))
                   ELSE l.log
         IN IF merged_all.status = "raise" THEN Raise(l.self, merged_all.exc, l.log)
            ELSE Return([l.self EXCEPT
                           !.merged = DataFrame(DropIndicator(
                                         WithIndicator(merged_all.rows, "both"))),
                           !.work.merges = @ + 1],
                        None, lg)))

\* if self.merged is None: self.process_data()
EnsureMerged(self, dsk) ==
    IF self.merged.kind = "None" THEN process_data(self, dsk)
    ELSE Return(self, None, <<>>)

\* VideoCreatorStats.get_average_views_total (every merged table of the
\* model has a views column)
get_average_views_total(self, dsk) ==
    Then(EnsureMerged(self, dsk), LAMBDA m :
    IF m.status = "raise" THEN m
    ELSE Return(m.self, mean(m.self.merged.rows, "views"), m.log))

\* the rows of a group of groupby(col), and the keys of the groups
Group(rows, col, key) == SelectSeq(rows, LAMBDA r : r[col] = key)
GroupKeys(rows, col) == {rows[r][col] : r \in DOMAIN rows} \ {NA}

\* VideoCreatorStats.get_average_views_by_creator: a Series indexed by
\* creator_id
get_average_views_by_creator(self, dsk) ==
    Then(EnsureMerged(self, dsk), LAMBDA m :
    IF m.status = "raise" THEN m
    ELSE LET rows == m.self.merged.rows IN
         Return(m.self,
                [key \in GroupKeys(rows, "creator_id") |->
                    mean(Group(rows, "creator_id", key), "views")],
                m.log))

\* get_views_per_category with .count() in the place of .sum()
get_views_per_category_count(self, dsk) ==
    Then(EnsureMerged(self, dsk), LAMBDA m :
    IF m.status = "raise" THEN m
    ELSE LET rows == m.self.merged.rows IN
         Return(m.self,
                [key \in GroupKeys(rows, "category") |->
                    Len(Group(rows, "category", key))],
                m.log))

\* VideoCreatorStats.get_views_per_category: a Series indexed by category
get_views_per_category(self, dsk) ==
    Then(EnsureMerged(self, dsk), LAMBDA m :
    IF m.status = "raise" THEN m
    ELSE LET rows == m.self.merged.rows IN
         Return(m.self,
                [key \in GroupKeys(rows, "category") |->
                    sum(Group(rows, "category", key), "views")],
                m.log))

\* the keys of groupby('creator_id') in the order groupby iterates them:
\* ascending
RECURSIVE Ascending(_)
Ascending(keys) ==
    IF keys = {} THEN <<>>
    ELSE LET least == CHOOSE x \in keys : \A y \in keys : x.i <= y.i
         IN <<least>> \o Ascending(keys \ {least})

\* total_engagement / total_views if total_views > 0 else 0
avg_engagement(total_engagement, total_views) ==
    IF total_views > 0 THEN TrueDiv(total_engagement, total_views) ELSE IntNum(0)

\* the virality score without its guard
virality_score_unguarded(total_engagement, follower_count) ==
    np_log(TrueDiv(total_engagement, follower_count))

\* np.log(total_engagement / follower_count) if follower_count > 0 else 0
virality_score(total_engagement, follower_count) ==
    IF follower_count > 0 THEN np_log(TrueDiv(total_engagement, follower_count))
    ELSE IntNum(0)

---------------------------------------------------------------------------
(* DataAnalytics/TextStatistics.py and the keyword helpers of process.py.  *)
(* A text is the sequence of its whitespace-separated words.  The weights  *)
(* of TfidfVectorizer are floats; the model computes them in thousandths,  *)
(* rounded down.                                                           *)

\* the words of the model that are in sklearn's English stop word list
stop_words == {"something", "else", "the"}

\* str.lower over the words of the model
lower(w) == IF w = "Viral" THEN "viral" ELSE IF w = "The" THEN "the" ELSE w

\* token_pattern r"(?u)\b\w\w+\b": a word of one character is no token
IsToken(w) == w # "x"

\* the analyzer of TfidfVectorizer(stop_words='english'): lowercase, keep
\* the tokens, drop the stop words
analyze(text) ==
    SelectSeq([k \in DOMAIN text |-> lower(text[k])],
              LAMBDA w : IsToken(w) /\ w \notin stop_words)

\* the terms of the model in sorted order, the order of the vocabulary
SortedTerms == <<"cool", "trend", "viral">>

\* 1000 * ln(a / b), rounded, for the ratios (1 + n) / (1 + df) of up to
\* five documents
LogMilli(a, b) ==
    CASE a = b -> 0
      [] 5 * a = 6 * b -> 182
      [] 4 * a = 5 * b -> 223
      [] 3 * a = 4 * b -> 288
      [] 2 * a = 3 * b -> 405
      [] 3 * a = 5 * b -> 511
      [] a = 2 * b -> 693
      [] 2 * a = 5 * b -> 916
      [] a = 3 * b -> 1099

\* floor of the square root, by Newton's iteration from x
RECURSIVE SqrtFrom(_, _)
SqrtFrom(n, x) ==
    LET y == (x + n \div x) \div 2 IN
    IF y >= x THEN x ELSE SqrtFrom(n, y)
Sqrt(n) == IF n = 0 THEN 0 ELSE SqrtFrom(n, n)

\* how often a term occurs in a sequence of tokens
Count(tokens, w) == Cardinality({k \in DOMAIN tokens : tokens[k] = w})

\* TfidfVectorizer.fit_transform(docs), with get_feature_names_out(): the
\* vocabulary is the sorted terms of the documents (ValueError when there
\* is none), a weight is tf * (ln((1 + n) / (1 + df)) + 1), and every row
\* is scaled to Euclidean length 1
fit_transform(docs) ==
    Then([d \in DOMAIN docs |-> analyze(docs[d])], LAMBDA tokens :
    Then(SelectSeq(SortedTerms,
                   LAMBDA w : \E d \in DOMAIN tokens : Count(tokens[d], w) > 0),
         LAMBDA feature_names :
    IF feature_names = <<>>
    THEN [status |-> "raise",
          exc |-> Exc("ValueError", "", "empty vocabulary"),
          feature_names |-> <<>>, matrix |-> <<>>]
    ELSE LET n == Len(docs)
             df(j) == Cardinality({d \in DOMAIN tokens :
                                     Count(tokens[d], feature_names[j]) > 0})
         IN Then([j \in DOMAIN feature_names |-> LogMilli(1 + n, 1 + df(j)) + 1000],
                 LAMBDA idf :
            Then([d \in DOMAIN tokens |->
                    [j \in DOMAIN feature_names |->
                       Count(tokens[d], feature_names[j]) * idf[j]]],
                 LAMBDA raw :
            Then([d \in DOMAIN tokens |->
                    Sqrt(SeqSum([j \in DOMAIN feature_names |-> raw[d][j] * raw[d][j]]))],
                 LAMBDA norm :
            [status |-> "ok", exc |-> NoExc, feature_names |-> feature_names,
             matrix |-> [d \in DOMAIN tokens |->
                           [j \in DOMAIN feature_names |->
                              IF norm[d] = 0 THEN 0
                              ELSE (raw[d][j] * 1000) \div norm[d]]]])))))

\* a dict and a list as values
Dict(items) == [kind |-> "dict", items |-> items]
List(items) == [kind |-> "list", items |-> items]

\* sorting that forgets reverse=True and reverses the sorted list instead:
\* entries with equal scores end up in reverse order
RECURSIVE sort_then_reverse(_)
sort_then_reverse(word_scores) ==
    IF word_scores = <<>> THEN <<>>
    ELSE LET rest == sort_then_reverse(Tail(word_scores))
             x == Head(word_scores)
             before == SelectSeq(rest, LAMBDA e : e.score >= x.score)
             after == SelectSeq(rest, LAMBDA e : e.score < x.score)
         IN before \o <<x>> \o after

\* word_scores.sort(key=lambda x: x[1], reverse=True): descending by score,
\* entries with equal scores kept in their order (the sort is stable)
RECURSIVE sort_reverse(_)
sort_reverse(word_scores) ==
    IF word_scores = <<>> THEN <<>>
    ELSE LET rest == sort_reverse(Tail(word_scores))
             x == Head(word_scores)
             before == SelectSeq(rest, LAMBDA e : e.score > x.score)
             after == SelectSeq(rest, LAMBDA e : e.score <= x.score)
         IN before \o <<x>> \o after

\* [w for w, s in word_scores[:top_n]]
TopWords(word_scores, n) ==
    [k \in 1..(IF n < Len(word_scores) THEN n ELSE Len(word_scores)) |->
        word_scores[k].word]

\* the (word, score) pairs of the nonzero entries of a row, in column order
RowScores(feature_names, row) ==
    LET nonzero == SelectSeq([j \in DOMAIN row |-> j], LAMBDA j : row[j] # 0)
    IN [k \in DOMAIN nonzero |->
          [word |-> feature_names[nonzero[k]], score |-> row[nonzero[k]]]]

\* the loop over the documents: results[ids.iloc[i]] = the top words of row
\* i, a later document with the same id replacing an earlier one
PerItemResults(fitted, ids, n) ==
    [id \in {ids[i] : i \in DOMAIN fitted.matrix} |->
        LET i == CHOOSE i \in DOMAIN fitted.matrix :
                    /\ ids[i] = id
                    /\ \A k \in DOMAIN fitted.matrix : ids[k] = id => k <= i
        IN TopWords(sort_reverse(RowScores(fitted.feature_names, fitted.matrix[i])), n)]

\* the column sums of the matrix, zipped with the feature names
ColumnScores(fitted) ==
    [j \in DOMAIN fitted.feature_names |->
        [word |-> fitted.feature_names[j],
         score |-> SeqSum([d \in DOMAIN fitted.matrix |-> fitted.matrix[d][j]])]]

\* combined_text.strip() is empty: no text has a word
NoText(text_series) == \A d \in DOMAIN text_series : text_series[d] = <<>>

\* TextStatistics.extract_keywords_per_item
extract_keywords_per_item(texts, ids, n) ==
    IF texts = <<>> THEN [status |-> "ok", exc |-> NoExc, value |-> Dict(<<>>)]
    ELSE Then(fit_transform(texts), LAMBDA fitted :
         IF fitted.status = "raise"
         THEN [status |-> "ok", exc |-> NoExc, value |-> Dict(<<>>)]
         ELSE [status |-> "ok", exc |-> NoExc,
               value |-> Dict(PerItemResults(fitted, ids, n))])

\* get_top_keywords_for_series without its try / except ValueError
get_top_keywords_for_series_uncaught(text_series, n) ==
    IF NoText(text_series) THEN [status |-> "ok", exc |-> NoExc, value |-> List(<<>>)]
    ELSE Then(fit_transform(text_series), LAMBDA fitted :
         IF fitted.status = "raise"
         THEN [status |-> "raise", exc |-> fitted.exc, value |-> None]
         ELSE [status |-> "ok", exc |-> NoExc,
               value |-> List(TopWords(sort_reverse(ColumnScores(fitted)), n))])

\* TextStatistics.get_top_keywords_for_series
get_top_keywords_for_series(text_series, n) ==
    IF NoText(text_series) THEN [status |-> "ok", exc |-> NoExc, value |-> List(<<>>)]
    ELSE Then(fit_transform(text_series), LAMBDA fitted :
         IF fitted.status = "raise"
         THEN [status |-> "ok", exc |-> NoExc, value |-> List(<<>>)]
         ELSE [status |-> "ok", exc |-> NoExc,
               value |-> List(TopWords(sort_reverse(ColumnScores(fitted)), n))])

\* VideoCreatorStats._extract_keywords
extract_keywords(texts, ids, n) ==
    IF texts = <<>> THEN [status |-> "ok", exc |-> NoExc, value |-> Dict(<<>>)]
    ELSE Then(fit_transform(texts), LAMBDA fitted :
         IF fitted.status = "raise"
         THEN [status |-> "ok", exc |-> NoExc, value |-> Dict(<<>>)]
         ELSE [status |-> "ok", exc |-> NoExc,
               value |-> Dict(PerItemResults(fitted, ids, n))])

\* VideoCreatorStats._get_top_keywords_for_text_series
get_top_keywords_for_text_series(text_series, n) ==
    IF NoText(text_series) THEN [status |-> "ok", exc |-> NoExc, value |-> List(<<>>)]
    ELSE Then(fit_transform(text_series), LAMBDA fitted :
         IF fitted.status = "raise"
         THEN [status |-> "ok", exc |-> NoExc, value |-> List(<<>>)]
         ELSE [status |-> "ok", exc |-> NoExc,
               value |-> List(TopWords(sort_reverse(ColumnScores(fitted)), n))])

---------------------------------------------------------------------------
(* process.py: the creator stats table, the wrapper generate_stats and     *)
(* save_data.  The files under output_dir are a function from paths to the *)
(* tables written; a date is the number of its day.                        *)

\* the text of a caption cell: a missing or empty caption has no word, a
\* caption of one word has that word
CellText(c) == IF isnull(c) THEN <<>> ELSE IF c.s = "" THEN <<>> ELSE <<c.s>>

\* the body of the loop over the groups: the creator_stats dict of a group
creator_stats(creator_id, group, creator_rows, today_str, updated_at) ==
    Then(Matches([creator_id |-> creator_id], creator_rows, "creator_id")[1],
         LAMBDA creator_info :
    LET total_views == sum(group, "views")
        total_engagement == sum(group, "likes") + sum(group, "comments")
                            + sum(group, "shares")
    IN [creator_id |-> creator_id,
        timestamp |-> today_str,
        username |-> creator_info["username"],
        follower_count |-> creator_info["follower_count"],
        avg_views |-> mean(group, "views"),
        top_category |-> creator_info["category"],
        avg_engagement |-> avg_engagement(total_engagement, total_views),
        virality_score |-> virality_score(total_engagement,
                                          creator_info["follower_count"].i),
        top_keywords |-> get_top_keywords_for_text_series(
                            [r \in DOMAIN group |-> CellText(group[r]["caption"])],
                            3).value.items,
        updated_at |-> updated_at])

\* VideoCreatorStats.generate_creator_stats_table
generate_creator_stats_table(self, dsk) ==
    Then(EnsureMerged(self, dsk), LAMBDA m :
    IF m.status = "raise" THEN m
    ELSE LET rows == m.self.merged.rows IN
         Then(Ascending(GroupKeys(rows, "creator_id")), LAMBDA keys :
         Then(DataFrame([k \in DOMAIN keys |->
                           creator_stats(keys[k], Group(rows, "creator_id", keys[k]),
                                         m.self.creators.rows,
                                         m.self.now[m.self.reads + 2 * k - 1],
                                         m.self.now[m.self.reads + 2 * k])]),
              LAMBDA table :
         Return([m.self EXCEPT !.stats_table = table,
                               !.reads = @ + 2 * Len(keys),
                               !.work.builds = @ + 1],
                table, m.log))))

\* VideoCreatorStats.get_trending_keywords
get_trending_keywords(self, dsk, n) ==
    Then(EnsureMerged(self, dsk), LAMBDA m :
    IF m.status = "raise" THEN m
    ELSE LET rows == m.self.merged.rows IN
         Return(m.self,
                get_top_keywords_for_text_series(
                    [r \in DOMAIN rows |-> CellText(rows[r]["caption"])], n).value,
                m.log))

\* VideoCreatorStats.get_top_keywords_by_video
get_top_keywords_by_video(self, dsk, n) ==
    Then(EnsureMerged(self, dsk), LAMBDA m :
    IF m.status = "raise" THEN m
    ELSE LET rows == m.self.merged.rows IN
         Return(m.self,
                extract_keywords([r \in DOMAIN rows |-> CellText(rows[r]["caption"])],
                                 [r \in DOMAIN rows |-> rows[r]["video_id"]], n).value,
                m.log))

\* VideoCreatorStats.generate_stats: the aggregations in the order it calls
\* them, then the stats table
generate_stats(self, dsk) ==
    Then(get_average_views_total(self, dsk), LAMBDA a :
    IF a.status = "raise" THEN a ELSE
    Then(get_average_views_by_creator(a.self, dsk), LAMBDA b :
    IF b.status = "raise" THEN Raise(b.self, b.exc, a.log \o b.log) ELSE
    Then(get_views_per_category(b.self, dsk), LAMBDA c :
    IF c.status = "raise" THEN Raise(c.self, c.exc, a.log \o b.log \o c.log) ELSE
    Then(get_top_keywords_by_video(c.self, dsk, 3), LAMBDA k :
    Then(get_trending_keywords(k.self, dsk, 5), LAMBDA w :
    Then(generate_creator_stats_table(w.self, dsk), LAMBDA t :
    LET lg == a.log \o b.log \o c.log \o k.log \o w.log \o t.log
    IN IF t.status = "raise" THEN Raise(t.self, t.exc, lg)
       ELSE Return(t.self,
                   [avg_views_total |-> a.value,
                    avg_views_by_creator |-> b.value,
                    views_per_category |-> c.value,
                    top_keywords_by_video |-> k.value,
                    trending_keywords |-> w.value,
                    creator_stats_table |-> t.self.stats_table],
                   lg)))))))

\* a file under output_dir: <dir>/<today_str>.avro, or for the videos
\* <dir>/creator_id=<id>/<today_str>.avro
Path(dir, creator_id, today_str) ==
    [dir |-> dir, creator_id |-> creator_id, date |-> today_str]

\* AvroPandasStorage(path, data).save(): open(path, 'wb') replaces the file
Save(files, path, data) ==
    [p \in DOMAIN files \cup {path} |-> IF p = path THEN data ELSE files[p]]

\* the first n of the save() calls of a list, in order
RECURSIVE SaveAll(_, _, _)
SaveAll(files, saves, n) ==
    IF n = 0 THEN files
    ELSE Save(SaveAll(files, saves, n - 1), saves[n].path, saves[n].data)

\* the outcome of a call together with the files it leaves
Saved(r, files) ==
    [self |-> r.self, status |-> r.status, exc |-> r.exc, value |-> r.value,
     log |-> r.log, files |-> files]

\* os.makedirs / open failing on the file of a save()
OSError == Exc("OSError", "", "cannot write")

\* VideoCreatorStats.save_data.  fail_at is the save() the file system
\* fails, 0 or a number past the last save() if it fails none.
save_data(self, dsk, files, fail_at) ==
    Then(IF self.stats_table.kind = "None"
         THEN generate_creator_stats_table(self, dsk)
         ELSE Return(self, None, <<>>),
         LAMBDA t :
    IF t.status = "raise" THEN Saved(t, files) ELSE
    LET today_str == Today(t.self)
        s == AfterRead(t.self)
        head == <<[path |-> Path("creator_stats", NA, today_str), data |-> s.stats_table],
                  [path |-> Path("creators", NA, today_str), data |-> s.creators]>>
    IN IF fail_at \in 1..2
       THEN Saved(Raise(s, OSError, t.log), SaveAll(files, head, fail_at - 1))
       ELSE
    Then(IF s.videos.kind = "None" THEN load_data(s, dsk) ELSE Return(s, None, <<>>),
         LAMBDA l :
    IF l.status = "raise"
    THEN Saved(Raise(l.self, l.exc, t.log \o l.log), SaveAll(files, head, 2))
    ELSE
    Then(Ascending(GroupKeys(l.self.videos.rows, "creator_id")), LAMBDA keys :
    LET saves == head \o
                 [k \in DOMAIN keys |->
                    [path |-> Path("videos", keys[k], today_str),
                     data |-> DataFrame(Group(l.self.videos.rows, "creator_id",
                                              keys[k]))]]
    IN IF fail_at \in 3..Len(saves)
       THEN Saved(Raise(l.self, OSError, t.log \o l.log),
                  SaveAll(files, saves, fail_at - 1))
       ELSE Saved(Return(l.self, None, t.log \o l.log),
                  SaveAll(files, saves, Len(saves))))))

---------------------------------------------------------------------------
(* The tables and pipelines a stand-alone IngestionFile is exercised with. *)

\* the rules of a pipeline that carry a fill_na
FillOnly(p) == SelectSeq(p, LAMBDA qa : Has(qa.fill_na))

Pipelines ==
    {creator_qa_pipeline, videos_qa_pipeline,
     FillOnly(creator_qa_pipeline), FillOnly(videos_qa_pipeline)}


WellFormed(type) == IF type = "Int64" THEN I(1) ELSE S("a")

\* what read_csv can yield under the column's dtype besides a well-formed
\* value, and what only a directly assigned DataFrame can hold
TypedTags == {"missing", "invalid"}
AllTags == TypedTags \cup {"mistyped"}
Deviation(type, tag) ==
    CASE tag = "missing" -> NA
      [] tag = "invalid" -> IF type = "Int64" THEN I(-1) ELSE S("")
      [] tag = "mistyped" -> IF type = "Int64" THEN F(0) ELSE I(7)

\* the rows over the columns of pipeline p in which at most one cell
\* deviates from a well-formed value (the rules look at a column through
\* .any(): which row holds a deviation does not matter to them)
WellFormedRow(p) == [c \in Columns(p) |-> WellFormed(ColType(p, c))]
RowsOf(p, tags) ==
    {WellFormedRow(p)} \cup
    {[WellFormedRow(p) EXCEPT ![c] = Deviation(ColType(p, c), tag)] :
        c \in Columns(p), tag \in tags}

FileName == "data.csv"

InitClean ==
    /\ \E p \in Pipelines, n \in 0..MaxRows, assigned \in BOOLEAN :
         \E T \in [1..n -> RowsOf(p, IF assigned THEN AllTags ELSE TypedTags)] :
             /\ disk = [f \in {FileName} |-> IF assigned THEN <<>> ELSE T]
             /\ ifile = [IngestionFile(p, FileName) EXCEPT
                           !.data = IF assigned THEN DataFrame(T) ELSE None]
    /\ given = <<>>
    /\ captions = <<>>
    /\ top_n = 0
    /\ clock = 1
    /\ lastday = 1
    /\ out = NoFiles
    /\ work = NoWork
    /\ creators = None
    /\ videos = None
    /\ merged = None
    /\ stats_table = None
    /\ ret = [op |-> "", status |-> "ok", exc |-> NoExc, value |-> None]
    /\ log = <<>>
    /\ trace = <<>>

\* a caller runs IngestionFile.load_data
LoadFile ==
    /\ ifile' = IngestionFile_load_data(ifile, disk)
    /\ ret' = [op |-> "IngestionFile.load_data", status |-> "ok",
               exc |-> NoExc, value |-> ifile'.data]
    /\ log' = <<>>
    /\ trace' = <<>>
    /\ UNCHANGED <<disk, given, creators, videos, merged, stats_table, captions, top_n,
                   runVars>>

\* a caller runs IngestionFile.clean_data
CleanData ==
    \E r \in {clean_data(ifile, disk)} :
    /\ ifile' = r.self
    /\ given' = r.given
    /\ ret' = [op |-> "clean_data", status |-> r.status, exc |-> r.exc,
               value |-> r.value]
    /\ log' = r.log
    /\ trace' = r.trace
    /\ UNCHANGED <<disk, creators, videos, merged, stats_table, captions, top_n,
                   runVars>>

NextClean == LoadFile \/ CleanData

SpecClean == InitClean /\ [][NextClean]_vars

---------------------------------------------------------------------------
(* The keyword operations on their own: a caller hands a sequence of texts *)
(* and a top_n to one of them.                                             *)

\* the texts of the model: none, stop words only, a word of one character
\* among terms, and texts over the terms "cool", "trend" and "viral"
Texts ==
    {<<>>,
     <<"the">>,
     <<"something", "else">>,
     <<"x", "trend", "cool">>,
     <<"viral", "viral", "trend">>,
     <<"viral", "trend", "cool">>,
     <<"Viral", "something", "else">>}

\* ids: the positions of the texts
Ids(texts) == [i \in DOMAIN texts |-> i]

InitText ==
    /\ \E n \in 0..MaxDocs : captions \in [1..n -> Texts]
    /\ top_n = 0
    /\ clock = 1
    /\ lastday = 1
    /\ out = NoFiles
    /\ work = NoWork
    /\ disk = [f \in {FileName} |-> <<>>]
    /\ ifile = IngestionFile(<<>>, "")
    /\ given = <<>>
    /\ creators = None
    /\ videos = None
    /\ merged = None
    /\ stats_table = None
    /\ ret = [op |-> "", status |-> "ok", exc |-> NoExc, value |-> None]
    /\ log = <<>>
    /\ trace = <<>>

\* a caller runs a keyword operation with top_n = n
KeywordCall(op, n, r) ==
    /\ top_n' = n
    /\ ret' = [op |-> op, status |-> r.status, exc |-> r.exc, value |-> r.value]
    /\ UNCHANGED <<disk, ifile, given, creators, videos, merged, stats_table,
                   log, trace, captions, runVars>>

ExtractKeywordsPerItem ==
    \E n \in 1..MaxTopN :
      \E r \in {extract_keywords_per_item(captions, Ids(captions), n)} :
        KeywordCall("extract_keywords_per_item", n, r)

GetTopKeywordsForSeries ==
    \E n \in 1..MaxTopN :
      \E r \in {get_top_keywords_for_series(captions, n)} :
        KeywordCall("get_top_keywords_for_series", n, r)

ExtractKeywords ==
    \E n \in 1..MaxTopN :
      \E r \in {extract_keywords(captions, Ids(captions), n)} :
        KeywordCall("_extract_keywords", n, r)

GetTopKeywordsForTextSeries ==
    \E n \in 1..MaxTopN :
      \E r \in {get_top_keywords_for_text_series(captions, n)} :
        KeywordCall("_get_top_keywords_for_text_series", n, r)

NextText ==
    \/ ExtractKeywordsPerItem
    \/ GetTopKeywordsForSeries
    \/ ExtractKeywords
    \/ GetTopKeywordsForTextSeries

SpecText == InitText /\ [][NextText]_vars

---------------------------------------------------------------------------
(* The pipeline: one VideoCreatorStats object over a creators.csv and a    *)
(* videos.csv, and a caller that runs its methods in any order.            *)

\* what a creators.csv row holds besides its creator_id: a negative
\* follower count, or a missing follower count in category "A"
CreatorProfiles ==
    {[follower_count |-> I(-1), category |-> NA],
     [follower_count |-> NA, category |-> S("A")]}
CreatorRow(id, pr) ==
    [c \in CreatorColumns |->
        CASE c = "creator_id" -> I(id)
          [] c = "username" -> S("u")
          [] c = "follower_count" -> pr.follower_count
          [] c = "avg_views" -> I(5)
          [] c = "category" -> pr.category
          [] c = "bio" -> NA]
\* creator 1 in every profile, creator 2 with followers and no category
CreatorRows ==
    {CreatorRow(1, pr) : pr \in CreatorProfiles}
    \cup {CreatorRow(2, [follower_count |-> I(2), category |-> NA])}

\* what a videos.csv row holds besides its ids: negative views, views
\* without any engagement (likes missing), views with likes
VideoProfiles ==
    {[views |-> I(-1), likes |-> NA],
     [views |-> I(100), likes |-> NA],
     [views |-> I(200), likes |-> I(3)]}
VideoRow(k, id, pr) ==
    [c \in VideoColumns |->
        CASE c = "video_id" -> S(<<"v", k>>)
          [] c = "creator_id" -> I(id)
          [] c = "views" -> pr.views
          [] c = "likes" -> pr.likes
          [] c = "comments" -> I(0)
          [] c = "shares" -> NA
          [] c = "caption" -> NA]
\* what a videos.csv row is about: a video of creator 1 in every profile, a
\* video of creator 2 in the last one
VideoKinds ==
    {[id |-> 1, pr |-> pr] : pr \in VideoProfiles}
    \cup {[id |-> 2, pr |-> [views |-> I(200), likes |-> I(3)]]}

\* the creator_ids of videos.csv: a call has at most one group, and
\* save_data at most one partition, for each of them
VideoCreators == {disk[videos_path][k]["creator_id"] : k \in DOMAIN disk[videos_path]}

\* the days the clock reads of one call may yield (two reads for each group
\* and the read of save_data): the clock never goes back, and stays within
\* the period
ClockReads ==
    {now \in [1..(2 * Cardinality(VideoCreators) + 1) -> clock..lastday] :
        \A a, b \in DOMAIN now : a <= b => now[a] <= now[b]}

\* the object a call starts on: its fields, the clock reads ahead of it, and
\* no read taken and no work done yet
SelfAt(now) ==
    [creators |-> creators, videos |-> videos, merged |-> merged,
     stats_table |-> stats_table, now |-> now, reads |-> 0, work |-> NoWork]

\* the object a call that reads no clock starts on
Self == SelfAt(<<>>)

Init ==
    /\ \E n \in 0..MaxCreators, m \in 0..MaxVideos :
         \E C \in [1..n -> CreatorRows], V \in [1..m -> VideoKinds] :
           disk = [f \in {creators_path, videos_path} |->
                     IF f = creators_path THEN C
                     ELSE [k \in 1..m |-> VideoRow(k, V[k].id, V[k].pr)]]
    /\ ifile = IngestionFile(<<>>, "")
    /\ given = <<>>
    /\ captions = <<>>
    /\ top_n = 0
    /\ clock = 1
    /\ lastday = 1
    /\ out = NoFiles
    /\ work = NoWork
    /\ creators = None
    /\ videos = None
    /\ merged = None
    /\ stats_table = None
    /\ ret = [op |-> "", status |-> "ok", exc |-> NoExc, value |-> None]
    /\ log = <<>>
    /\ trace = <<>>

\* the caller runs a method: the fields, the outcome and the log after it
Outcome(op, r) ==
    /\ clock' = IF r.self.reads = 0 THEN clock ELSE r.self.now[r.self.reads]
    /\ work' = r.self.work
    /\ creators' = r.self.creators
    /\ videos' = r.self.videos
    /\ merged' = r.self.merged
    /\ stats_table' = r.self.stats_table
    /\ ret' = [op |-> op, status |-> r.status, exc |-> r.exc, value |-> r.value]
    /\ log' = r.log
    /\ UNCHANGED <<disk, ifile, given, trace, captions, top_n, lastday>>

\* a call of a method that writes no file
Call(op, r) ==
    /\ Outcome(op, r)
    /\ out' = out

LoadData ==
    \E r \in {load_data(Self, disk)} : Call("load_data", r)
ProcessData ==
    \E r \in {process_data(Self, disk)} : Call("process_data", r)
GetAverageViewsTotal ==
    \E r \in {get_average_views_total(Self, disk)} : Call("get_average_views_total", r)
GetAverageViewsByCreator ==
    \E r \in {get_average_views_by_creator(Self, disk)} : Call("get_average_views_by_creator", r)
GetViewsPerCategory ==
    \E r \in {get_views_per_category(Self, disk)} : Call("get_views_per_category", r)
GenerateCreatorStatsTable ==
    \E now \in ClockReads :
        \E r \in {generate_creator_stats_table(SelfAt(now), disk)} :
            Call("generate_creator_stats_table", r)
GenerateStats ==
    \E now \in ClockReads :
        \E r \in {generate_stats(SelfAt(now), disk)} : Call("generate_stats", r)

Next ==
    \/ LoadData
    \/ ProcessData
    \/ GetAverageViewsTotal
    \/ GetAverageViewsByCreator
    \/ GetViewsPerCategory
    \/ GenerateCreatorStatsTable
    \/ GenerateStats

Spec == Init /\ [][Next]_vars

---------------------------------------------------------------------------
(* The run: the pipeline over files that may already hold what an earlier  *)
(* run of the same day wrote, with save_data, a file system that may fail  *)
(* a write, and a clock that may pass midnight.                            *)

\* the creators.csv files of the run: creator 1, or creators 1 and 2
RunCreators ==
    {<<CreatorRow(1, [follower_count |-> NA, category |-> S("A")])>>,
     <<CreatorRow(1, [follower_count |-> NA, category |-> S("A")]),
       CreatorRow(2, [follower_count |-> I(2), category |-> NA])>>}

\* what a videos.csv row of the run is about: a video of creator 1, of
\* creator 2, of a creator 3 that is not in creators.csv, or a video with
\* negative views
RunVideoKinds ==
    {[id |-> 1, pr |-> [views |-> I(100), likes |-> NA]],
     [id |-> 2, pr |-> [views |-> I(200), likes |-> I(3)]],
     [id |-> 3, pr |-> [views |-> I(100), likes |-> NA]],
     [id |-> 1, pr |-> [views |-> I(-1), likes |-> NA]]}

\* VideoCreatorStats.__init__
NewInstance(now) ==
    [creators |-> None, videos |-> None, merged |-> None, stats_table |-> None,
     now |-> now, reads |-> 0, work |-> NoWork]

\* the files an earlier run left on a day: main() over creators 1 and 2
\* and one video of creator 2
EarlierDisk ==
    [f \in {creators_path, videos_path} |->
        IF f = creators_path
        THEN <<CreatorRow(1, [follower_count |-> NA, category |-> S("A")]),
               CreatorRow(2, [follower_count |-> I(2), category |-> NA])>>
        ELSE <<VideoRow(1, 2, [views |-> I(200), likes |-> I(3)])>>]
EarlierRun(day) ==
    LET now == [k \in 1..(2 * Len(EarlierDisk[creators_path]) + 1) |-> day]
    IN save_data(generate_stats(NewInstance(now), EarlierDisk).self,
                 EarlierDisk, NoFiles, 0).files

InitRun ==
    /\ clock = 1
    /\ lastday = 2
    /\ out \in {NoFiles, EarlierRun(1)}
    /\ work = NoWork
    /\ \E cs \in RunCreators :
       \E n \in 0..MaxVideos : \E vs \in [1..n -> RunVideoKinds] :
          disk = [f \in {creators_path, videos_path} |->
                    IF f = creators_path THEN cs
                    ELSE [k \in 1..n |-> VideoRow(k, vs[k].id, vs[k].pr)]]
    /\ ifile = IngestionFile(<<>>, "")
    /\ given = <<>>
    /\ captions = <<>>
    /\ top_n = 0
    /\ creators = None
    /\ videos = None
    /\ merged = None
    /\ stats_table = None
    /\ ret = [op |-> "", status |-> "ok", exc |-> NoExc, value |-> None]
    /\ log = <<>>
    /\ trace = <<>>

GetTopKeywordsByVideo ==
    \E r \in {get_top_keywords_by_video(Self, disk, 3)} :
        Call("get_top_keywords_by_video", r)
GetTrendingKeywords ==
    \E r \in {get_trending_keywords(Self, disk, 5)} : Call("get_trending_keywords", r)

\* save_data(output_dir); the file system fails one of its writes or none
SaveData ==
    \E now \in ClockReads : \E fail_at \in 0..(2 + Cardinality(VideoCreators)) :
        \E r \in {save_data(SelfAt(now), disk, out, fail_at)} :
            /\ Outcome("save_data", r)
            /\ out' = r.files

\* the caller runs the aggregations, generate_stats and save_data in any
\* order, and leaves the loading and the join to them
NextRun ==
    \/ GetAverageViewsTotal
    \/ GetAverageViewsByCreator
    \/ GetViewsPerCategory
    \/ GetTopKeywordsByVideo
    \/ GetTrendingKeywords
    \/ GenerateCreatorStatsTable
    \/ GenerateStats
    \/ SaveData

SpecRun == InitRun /\ [][NextRun]_vars

---------------------------------------------------------------------------
(* Properties of IngestionFile.clean_data, stated over the table the call  *)
(* was given, the steps it took and its outcome.                           *)

Least(U) == CHOOSE i \in U : \A j \in U : i <= j

\* the given rows with each missing cell replaced by the fill_na of the
\* first rule among the first k of p that names the cell's column and has one
FilledUpTo(rows, p, k) ==
    [r \in DOMAIN rows |->
        [c \in DOMAIN rows[r] |->
            LET fillers == {i \in 1..k : i <= Len(p) /\ p[i].col = c /\ Has(p[i].fill_na)}
            IN IF isnull(rows[r][c]) /\ fillers # {}
               THEN p[Least(fillers)].fill_na[1]
               ELSE rows[r][c]]]

\* the steps of rule k of p in the order of declaration: missing-value
\* handling, then each warning, then each assertion
StepsOfRule(p, k) ==
    <<[rule |-> k, phase |-> "na", item |-> 0]>>
    \o [j \in 1..Len(p[k].warnings) |-> [rule |-> k, phase |-> "warning", item |-> j]]
    \o [j \in 1..Len(p[k].assertions) |-> [rule |-> k, phase |-> "assertion", item |-> j]]

RECURSIVE StepsFrom(_, _)
StepsFrom(p, k) ==
    IF k > Len(p) THEN <<>> ELSE StepsOfRule(p, k) \o StepsFrom(p, k + 1)

\* the place of a step that was taken
PlaceOf(e) ==
    [rule |-> e.rule,
     phase |-> IF e.step \in {"fill_na", "isnull"} THEN "na" ELSE e.step,
     item |-> e.item]

\* rule i of p fails on the given rows once rules 1..i have filled them
WouldFail(rows, p, i) ==
    LET df == FilledUpTo(rows, p, i) IN
    \/ ~Has(p[i].fill_na) /\ AnyNull(df, p[i].col)
    \/ \E j \in DOMAIN p[i].assertions :
          /\ Holds(p[i].assertions[j].condition, df)
          /\ ShouldFail(p[i].assertions[j]) # "False"

Failing(rows, p) == {i \in DOMAIN p : WouldFail(rows, p, i)}

LastRule == IF trace = <<>> THEN 0 ELSE trace[Len(trace)].rule

\* C1: clean_data takes the steps of the rules in declaration order, within
\* a rule the missing-value handling, then the warnings, then the
\* assertions, and stops at the first step that raises; every step of rule k
\* works on the given table with the fill-ins of rules 1..k and of no later
\* rule; the call raises exactly when some rule fails, and then the error is
\* the one of the earliest failing rule.
C1_RulesInDeclarationOrder ==
    ret.op = "clean_data" =>
      LET p == ifile.qa_pipeline
          all == StepsFrom(p, 1)
      IN /\ Len(trace) <= Len(all)
         /\ \A e \in DOMAIN trace :
              /\ PlaceOf(trace[e]) = all[e]
              /\ trace[e].df = FilledUpTo(given, p, trace[e].rule)
         /\ (ret.status = "ok") = (Failing(given, p) = {})
         /\ ret.status = "ok" => Len(trace) = Len(all)
         /\ ret.status = "raise" =>
              /\ LastRule = Least(Failing(given, p))
              /\ trace[Len(trace)].held
              /\ ret.exc.type = "ValueError" =>
                   \E j \in DOMAIN p[LastRule].assertions :
                      ret.exc.text = p[LastRule].assertions[j].message

\* C1 witness: two rules fail on the given table, and the call raised at
\* the earlier one, after the steps of a rule before it
C1_Witness ==
    /\ ret.op = "clean_data"
    /\ ret.status = "raise"
    /\ Cardinality(Failing(given, ifile.qa_pipeline)) >= 2
    /\ LastRule > 1

\* C2 (as claimed): a missing entry in the column of a rule without
\* fill_na aborts clean_data at that rule with the error kind a fatal
\* assertion raises (ValueError) carrying the table name and a message.
C2_MissingRaisesIntegrityError ==
    (/\ ret.op = "clean_data"
     /\ trace # <<>>
     /\ trace[Len(trace)].step = "isnull"
     /\ trace[Len(trace)].held)
    => /\ ret.status = "raise"
       /\ ret.exc.type = "ValueError"
       /\ ret.exc.file = ifile.filename
       /\ ret.value = None

\* the assertion a step evaluated
AssertionOf(e) == ifile.qa_pipeline[e.rule].assertions[e.item]

\* C3 (as claimed): an assertion that is not marked fatal and whose
\* predicate holds is logged at error level and clean_data goes on: it is
\* never the step the call stops at with an error.
C3_NonFatalAssertionContinues ==
    ret.op = "clean_data" =>
      \A e \in DOMAIN trace :
        (/\ trace[e].step = "assertion"
         /\ trace[e].held
         /\ AssertionOf(trace[e]).should_fail # Key(TRUE))
        => /\ \E l \in DOMAIN log :
                 /\ log[l].level = "ERROR"
                 /\ log[l].text = AssertionOf(trace[e]).message
           /\ ~(e = Len(trace) /\ ret.status = "raise")

\* C5: with a fill_na in every rule, clean_data never stops on a missing
\* value, and the table it returns has no missing value in a ruled column.
C5_FilledColumnsHaveNoMissing ==
    (/\ ret.op = "clean_data"
     /\ \A k \in DOMAIN ifile.qa_pipeline : Has(ifile.qa_pipeline[k].fill_na))
    => /\ ret.exc # RaiseNone
       /\ \A e \in DOMAIN trace : trace[e].step # "isnull"
       /\ ret.status = "ok" =>
            \A r \in DOMAIN ret.value.rows, k \in DOMAIN ifile.qa_pipeline :
               ~isnull(ret.value.rows[r][ifile.qa_pipeline[k].col])

\* C5 witness: every rule has a fill_na, the given table had a missing
\* value in a ruled column, and the call returned
C5_Witness ==
    /\ ret.op = "clean_data"
    /\ ret.status = "ok"
    /\ ifile.qa_pipeline # <<>>
    /\ \A k \in DOMAIN ifile.qa_pipeline : Has(ifile.qa_pipeline[k].fill_na)
    /\ \E k \in DOMAIN ifile.qa_pipeline : AnyNull(given, ifile.qa_pipeline[k].col)

\* C6 (as claimed): the table clean_data was given is unchanged after the
\* call, whether the call returned or raised.
C6_GivenTableUnchanged ==
    ret.op = "clean_data" => ifile.data = DataFrame(given)

\* C6 (amended): clean_data fills the table it was given in place.  After
\* the call IngestionFile.data is the given table with the fill-ins of all
\* rules when the call returned (and it is the returned table), and with the
\* fill-ins of the rules up to the one that raised when it raised; no other
\* cell differs from the given table.
C6_FilledInPlace ==
    ret.op = "clean_data" =>
      /\ ifile.data = DataFrame(FilledUpTo(given, ifile.qa_pipeline, LastRule))
      /\ ret.status = "ok" => /\ ret.value = ifile.data
                              /\ LastRule = Len(ifile.qa_pipeline)

\* C6 witness: the call raised after it had filled a cell of the given table
C6_Witness ==
    /\ ret.op = "clean_data"
    /\ ret.status = "raise"
    /\ ifile.data # DataFrame(given)

---------------------------------------------------------------------------
(* Properties of VideoCreatorStats, stated over the two files and the      *)
(* outcome of the latest call.                                             *)

\* a rule of p has an assertion marked should_fail whose predicate holds on
\* the rows as the rules up to it have filled them
FatalIn(rows, p) ==
    \E i \in DOMAIN p : \E j \in DOMAIN p[i].assertions :
       /\ p[i].assertions[j].should_fail = Key(TRUE)
       /\ Holds(p[i].assertions[j].condition, FilledUpTo(rows, p, i))

CreatorsFatal == FatalIn(disk[creators_path], creator_qa_pipeline)
VideosFatal == FatalIn(disk[videos_path], videos_qa_pipeline)

\* no rule of either pipeline fails on its file
LoadSucceeds ==
    /\ Failing(disk[creators_path], creator_qa_pipeline) = {}
    /\ Failing(disk[videos_path], videos_qa_pipeline) = {}

\* the two files with every fill_na applied
CleanCreators ==
    FilledUpTo(disk[creators_path], creator_qa_pipeline, Len(creator_qa_pipeline))
CleanVideos ==
    FilledUpTo(disk[videos_path], videos_qa_pipeline, Len(videos_qa_pipeline))

\* the video rows whose creator_id is the creator_id of some creators row,
\* in video order
MatchedVideos ==
    SelectSeq(CleanVideos,
              LAMBDA v : \E c \in DOMAIN CleanCreators :
                            CleanCreators[c]["creator_id"] = v["creator_id"])

\* the joined rows as pairs of a video row and a creators row
JoinedPairs ==
    {x \in (DOMAIN CleanVideos) \X (DOMAIN CleanCreators) :
        CleanVideos[x[1]]["creator_id"] = CleanCreators[x[2]]["creator_id"]}

\* the views of the video rows of a set of pairs, added up
RECURSIVE SumViews(_)
SumViews(pairs) ==
    IF pairs = {} THEN 0
    ELSE LET x == CHOOSE x \in pairs : TRUE
         IN CleanVideos[x[1]]["views"].i + SumViews(pairs \ {x})

\* the video columns of joined rows
VideoPart(rows) == [r \in DOMAIN rows |-> [c \in VideoColumns |-> rows[r][c]]]

UnmatchedWarnings == SelectSeq(log, LAMBDA e : e.text = UnmatchedWarning(0).text)

\* C4: when a fatal assertion holds on the creators file or on the videos
\* file, every call on the instance raises and returns nothing, no joined
\* table and no stats table is ever built, and the table the assertion
\* failed on never becomes a cleaned table of the instance.
C4_NoAggregationAfterFatalAssertion ==
    (CreatorsFatal \/ VideosFatal) =>
      /\ ret.op # "" => ret.status = "raise" /\ ret.value = None
      /\ merged = None
      /\ stats_table = None
      /\ CreatorsFatal => creators.kind # "DataFrame"
      /\ VideosFatal => videos.kind # "DataFrame"

\* C4 witness: the creators file cleaned, a fatal assertion failed on the
\* videos file, and a later generate_stats failed at the join
C4_Witness ==
    /\ VideosFatal
    /\ creators.kind = "DataFrame"
    /\ ret.op = "generate_stats"
    /\ ret.status = "raise"
    /\ ret.exc.type = "TypeError"

\* C7 (as claimed): after process_data on files that clean, the joined
\* table holds exactly the video rows that have a creators row with their
\* creator_id, in video order, each with that creator's columns; no error
\* is raised for the others, and the unmatched count logged is the number
\* of video rows left out.
C7_JoinedSetIsMatchedVideos ==
    (ret.op = "process_data" /\ LoadSucceeds) =>
      /\ ret.status = "ok"
      /\ VideoPart(merged.rows) = MatchedVideos
      /\ \A r \in DOMAIN merged.rows :
           /\ DOMAIN merged.rows[r] = VideoColumns \cup CreatorColumns
           /\ \E c \in DOMAIN CleanCreators :
                \A col \in CreatorColumns : merged.rows[r][col] = CleanCreators[c][col]
      /\ LET excluded == Len(CleanVideos) - Len(MatchedVideos)
         IN UnmatchedWarnings =
              IF excluded > 0 THEN <<UnmatchedWarning(excluded)>> ELSE <<>>

\* C8 (as claimed): get_average_views_total on files that clean returns the
\* sum of the views of the matched video rows divided by their number.
C8_MeanOverMatchedVideos ==
    (ret.op = "get_average_views_total" /\ LoadSucceeds) =>
      /\ ret.status = "ok"
      /\ MatchedVideos # <<>> =>
           /\ ret.value.kind = "float"
           /\ ret.value.num * Len(MatchedVideos)
                = SeqSum(IntColumn(MatchedVideos, "views")) * ret.value.den

\* C9: get_views_per_category on files that clean returns one entry for
\* each category of a joined row and no other entry, and the entry of a
\* category is the sum of the views of the joined rows with that category.
C9_ViewsPerCategory ==
    (ret.op = "get_views_per_category" /\ LoadSucceeds) =>
      /\ ret.status = "ok"
      /\ DOMAIN ret.value = {CleanCreators[x[2]]["category"] : x \in JoinedPairs}
      /\ \A cat \in DOMAIN ret.value :
           ret.value[cat] =
             SumViews({x \in JoinedPairs : CleanCreators[x[2]]["category"] = cat})

\* C9 witness: a category summed over two videos with different views
C9_Witness ==
    /\ ret.op = "get_views_per_category"
    /\ ret.status = "ok"
    /\ \E x \in JoinedPairs, y \in JoinedPairs :
         /\ x[1] # y[1]
         /\ CleanCreators[x[2]]["category"] = CleanCreators[y[2]]["category"]
         /\ CleanVideos[x[1]]["views"] # CleanVideos[y[1]]["views"]
         /\ CleanVideos[x[1]]["views"].i > 0

\* the first creators row with the given creator_id
CreatorInfo(id) ==
    CleanCreators[Least({c \in DOMAIN CleanCreators :
                            CleanCreators[c]["creator_id"] = id})]

\* C10: generate_creator_stats_table on files that clean never raises, and
\* the row of every creator of the joined set whose follower_count is 0 has
\* the virality_score 0, whatever the engagement of the creator's videos.
C10_ZeroFollowersZeroVirality ==
    /\ (ret.op = "generate_creator_stats_table" /\ LoadSucceeds) =>
         /\ ret.status = "ok"
         /\ ret.value = stats_table
         /\ \A x \in JoinedPairs :
              LET id == CleanVideos[x[1]]["creator_id"] IN
              CreatorInfo(id)["follower_count"] = I(0) =>
                \E r \in DOMAIN stats_table.rows :
                   /\ stats_table.rows[r].creator_id = id
                   /\ stats_table.rows[r].follower_count = I(0)
    /\ stats_table # None =>
         \A r \in DOMAIN stats_table.rows :
            stats_table.rows[r].follower_count = I(0) =>
              stats_table.rows[r].virality_score = IntNum(0)

\* C10 witness: the stats table has the row of a creator with follower_count
\* 0 one of whose videos has likes
C10_Witness ==
    /\ ret.op = "generate_creator_stats_table"
    /\ ret.status = "ok"
    /\ \E r \in DOMAIN stats_table.rows : \E x \in JoinedPairs :
         /\ stats_table.rows[r].follower_count = I(0)
         /\ CleanVideos[x[1]]["creator_id"] = stats_table.rows[r].creator_id
         /\ CleanVideos[x[1]]["likes"].i > 0

\* the unmatched count the latest call logged, 0 when it logged none
UnmatchedCount ==
    IF UnmatchedWarnings = <<>> THEN 0 ELSE UnmatchedWarnings[1].count

\* the rows of a table with a creator_id
OfCreator(rows, id) == SelectSeq(rows, LAMBDA r : r["creator_id"] = id)

\* C15 (as claimed): after process_data on files that clean, duplicated
\* creator_id in the creators file included, the joined rows and the
\* unmatched count add up to the number of video rows, no video_id is in two
\* joined rows, and the views of a creator's joined rows add up to the views
\* of that creator's video rows.
C15_EachVideoJoinedAtMostOnce ==
    (ret.op = "process_data" /\ LoadSucceeds) =>
      /\ ret.status = "ok"
      /\ Len(merged.rows) + UnmatchedCount = Len(CleanVideos)
      /\ \A a, b \in DOMAIN merged.rows :
           merged.rows[a]["video_id"] = merged.rows[b]["video_id"] => a = b
      /\ \A id \in GroupKeys(merged.rows, "creator_id") :
           SeqSum(IntColumn(OfCreator(merged.rows, id), "views"))
             = SeqSum(IntColumn(OfCreator(CleanVideos, id), "views"))

\* the latest call ran load_data and load_data raised
LoadFailed == work.loads = 1 /\ ret.status = "raise"

\* C16 (as claimed): when load_data fails, in a call of its own or in the
\* call that needed the tables, creators and videos are both None after it,
\* and every later call that needs the tables runs load_data again.
C16_FailedLoadLeavesNotLoaded ==
    /\ LoadFailed => creators = None /\ videos = None
    /\ (ret.op # "" /\ ~LoadSucceeds) => work.loads = 1

---------------------------------------------------------------------------
(* Properties of the run: the files under output_dir, the work of a call   *)
(* and the dates of the stats table.                                       *)

\* the creator_ids of the cleaned videos
CleanVideoCreators == GroupKeys(CleanVideos, "creator_id")

\* the files of a date
FilesOf(files, date) == {p \in DOMAIN files : p.date = date}

\* the files a complete save_data of the run leaves for a date
RunPaths(date) ==
    {Path("creator_stats", NA, date), Path("creators", NA, date)}
    \cup {Path("videos", id, date) : id \in CleanVideoCreators}

\* C13 (as claimed): generate_stats writes no file, and a save_data after a
\* generate_stats either returns with the creator_stats file, the creators
\* file and the partition file of every creator_id of the videos written, or
\* raises and leaves the files as they were before it.
C13_NoPartialOutput ==
    [][/\ ret'.op = "generate_stats" => out' = out
       /\ (ret.op = "generate_stats" /\ ret'.op = "save_data") =>
            IF ret'.status = "raise" THEN out' = out
            ELSE RunPaths(clock') \subseteq DOMAIN out']_vars

\* C14 (as claimed): a call of an aggregation, of a keyword method, of
\* generate_creator_stats_table, of generate_stats or of save_data loads the
\* tables at most once and only when none is loaded, joins them at most
\* once and only when there is no joined table, and builds the stats table
\* at most once and only when there is no stats table; so each is computed
\* at most once over any sequence of such calls.
C14_EachTableComputedOnce ==
    [][ret'.op # "" =>
         /\ work'.loads <= (IF creators = None /\ videos = None THEN 1 ELSE 0)
         /\ work'.merges <= (IF merged = None THEN 1 ELSE 0)
         /\ work'.builds <= (IF stats_table = None THEN 1 ELSE 0)]_vars

\* C17 (as claimed): after a save_data that returned, the files of its date
\* are the creator_stats file holding the stats table, the creators file
\* holding the cleaned creators, and one partition file for each creator_id
\* of the cleaned videos holding the video rows of that creator_id; there is
\* no other file of that date, whatever an earlier run of the date wrote.
C17_FilesOfRunDateHoldThatRun ==
    (ret.op = "save_data" /\ ret.status = "ok") =>
      /\ FilesOf(out, clock) = RunPaths(clock)
      /\ out[Path("creator_stats", NA, clock)] = stats_table
      /\ out[Path("creators", NA, clock)] = DataFrame(CleanCreators)
      /\ \A id \in CleanVideoCreators :
           out[Path("videos", id, clock)] = DataFrame(OfCreator(CleanVideos, id))

\* C18 (as claimed): the rows of a stats table all carry one timestamp, and
\* after a save_data that returned it is the date of the creator_stats file
\* the table was written to, however the clock advanced between the reads.
C18_OneRunDate ==
    /\ \A a, b \in DOMAIN stats_table.rows :
         stats_table.rows[a].timestamp = stats_table.rows[b].timestamp
    /\ (ret.op = "save_data" /\ ret.status = "ok") =>
         \A a \in DOMAIN stats_table.rows :
            /\ stats_table.rows[a].timestamp = clock
            /\ Path("creator_stats", NA, stats_table.rows[a].timestamp) \in DOMAIN out
            /\ out[Path("creator_stats", NA, stats_table.rows[a].timestamp)]
                 = stats_table

---------------------------------------------------------------------------
(* Properties of the keyword operations, stated over the texts and the     *)
(* outcome of the latest call.                                             *)

PerItemOps == {"extract_keywords_per_item", "_extract_keywords"}
PooledOps == {"get_top_keywords_for_series", "_get_top_keywords_for_text_series"}

\* every word of every text is a stop word: true of no texts at all and of
\* empty texts
AllStopWords(texts) ==
    \A d \in DOMAIN texts : \A k \in DOMAIN texts[d] : lower(texts[d][k]) \in stop_words

\* C11: on no texts, on empty texts and on texts of stop words only, the
\* per-item operations return the empty dict and the pooled operations the
\* empty list, and none of them raises.
C11_DegenerateCorpusGivesEmptyResult ==
    AllStopWords(captions) =>
      /\ ret.status = "ok"
      /\ ret.op \in PerItemOps => ret.value = Dict(<<>>)
      /\ ret.op \in PooledOps => ret.value = List(<<>>)

\* C11 witness: a pooled operation was run on texts that have words, all
\* of them stop words
C11_Witness ==
    /\ ret.op \in PooledOps
    /\ AllStopWords(captions)
    /\ \E d \in DOMAIN captions : captions[d] # <<>>

\* the terms of the texts: the words that are left of them as tokens
Vocabulary(texts) ==
    UNION {{lower(texts[d][k]) : k \in DOMAIN texts[d]} : d \in DOMAIN texts}
    \cap {SortedTerms[j] : j \in DOMAIN SortedTerms}

\* the place of a term in the vocabulary order
TermPlace(w) == CHOOSE j \in DOMAIN SortedTerms : SortedTerms[j] = w

\* the summed scores of the terms of the texts over the documents
SummedScores(texts) ==
    Then(fit_transform(texts), LAMBDA fitted :
    [w \in Vocabulary(texts) |->
        LET j == CHOOSE j \in DOMAIN fitted.feature_names : fitted.feature_names[j] = w
        IN SeqSum([d \in DOMAIN fitted.matrix |-> fitted.matrix[d][j]])])

\* term a ranks before term b under the given scores: a higher summed
\* score, or the same and an earlier place in the vocabulary
RanksBefore(score, a, b) ==
    \/ score[a] > score[b]
    \/ /\ score[a] = score[b]
       /\ TermPlace(a) < TermPlace(b)

\* the case of the tests: ["viral viral trend", "viral trend cool",
\* "viral something else"] with top_n = 2 gives ["viral", "trend"]
C12_TestCase ==
    (/\ ret.op \in PooledOps
     /\ top_n = 2
     /\ captions = << <<"viral", "viral", "trend">>, <<"viral", "trend", "cool">>,
                      <<"Viral", "something", "else">> >>)
    => ret.value = List(<<"viral", "trend">>)

\* C12: a pooled operation returns min(top_n, size of the vocabulary)
\* distinct terms of the texts, every returned term ranking before the
\* terms returned after it and before every term that is not returned; the
\* case of the tests gives ["viral", "trend"].
C12_PooledRankingOrder ==
    /\ C12_TestCase
    /\ (ret.op \in PooledOps /\ ret.status = "ok") =>
         \A score \in {SummedScores(captions)} :
         LET top == ret.value.items
             voc == Vocabulary(captions)
         IN /\ ret.value.kind = "list"
            /\ Len(top) = IF top_n < Cardinality(voc) THEN top_n ELSE Cardinality(voc)
            /\ \A k \in DOMAIN top : top[k] \in voc
            /\ \A k, m \in DOMAIN top : k < m => RanksBefore(score, top[k], top[m])
            /\ \A k \in DOMAIN top :
                 \A w \in voc \ {top[m] : m \in DOMAIN top} :
                    RanksBefore(score, top[k], w)

\* C12 witness: two terms with the same summed score were returned, and a
\* third term was cut off by top_n
C12_Witness ==
    /\ ret.op \in PooledOps
    /\ ret.status = "ok"
    /\ Len(ret.value.items) = 2
    /\ Cardinality(Vocabulary(captions)) = 3
    /\ SummedScores(captions)[ret.value.items[1]]
         = SummedScores(captions)[ret.value.items[2]]

===========================================================================
